---- MODULE Spec2Model ----
(***************************************************************************)
(* Model of the agent execution core of smartgpt:                          *)
(*   src/src/auto/agents/worker/methodical.rs  (add_memories,              *)
(*                                              run_method_agent)          *)
(*   src/src/auto/employee.rs                  (run_employee)              *)
(* Spec   is the methodical planner/executor run,                          *)
(* SpecE  is the employee command loop.                                    *)
(***************************************************************************)
EXTENDS Integers, Sequences, FiniteSets, TLC

\* ---------------------------------------------------------------- bounds
MaxSteps == 2
MaxAssets == 2
TokenLimit == 4000

\* ------------------------------------------------------ program constants
LowWater == 1200
FallbackCrop == 1000
HighWater == 2000

\* --------------------------------------------------------- input domains
Tools == {"search", "write"}
AssetNames == {"a", "b"}
Contents == {"c1", "c2"}
OutToks == {300, 1600}
Tok == [personality |-> 100, planner_prompt |-> 500, plan_raw |-> 300,
        step_prompt |-> 200, thoughts_raw |-> 200, memories_prompt |-> 100,
        asset_prompt |-> 200, stale |-> 100]
StepValues == {[kind |-> "resource", name |-> "search"],
               [kind |-> "action", name |-> "write"]}
AssetValues == [name : AssetNames]

VARIABLES
    pc,              \* position of run_method_agent
    result,          \* value returned by run_method_agent ("none" while running)
    planner,         \* get_planner_agent(context).llm
    agent,           \* get_agent(context).llm
    plan,            \* the parsed MethodicalPlan
    i,               \* index of the step being executed (for step in plan.steps)
    j,               \* index of the asset being written (for asset in plan.assets)
    thoughts,        \* thoughts.action of the current step
    allowed,         \* the actions allow_action accepts
    assets,          \* context.assets
    cloned_assets,   \* context.assets.clone() taken at run start
    changed_assets,  \* Vec<NamedAsset> of this run
    trace,           \* calls made so far: updates, gate, dispatch, flushes, writes
    sinkErr,         \* listen_to_update has returned an error
    resp,            \* the digest a successful run returns (<<>> before that)
    \* run_employee
    lock,            \* holder of the context mutex (0 when free)
    epc,             \* position of each run_employee caller
    employee,        \* context.agents.employee.llm
    plugins,         \* names of the commands the plugins provide
    disabled_commands,
    cmds,            \* generate_commands(plugins, disabled_commands) of each caller
    decision,        \* thoughts.action.command of each caller
    eresult,         \* value returned to each caller
    run,             \* number of the run each caller is in
    runs,            \* runs started so far
    etrace           \* decisions, dispatches and returns so far

mvars == <<pc, result, planner, agent, plan, i, j, thoughts, allowed, assets,
           cloned_assets, changed_assets, trace, sinkErr, resp>>
evars == <<lock, epc, employee, plugins, disabled_commands, cmds, decision,
           eresult, run, runs, etrace>>
vars == <<mvars, evars>>

\* ------------------------------------------------------------- messages
Msg(r, t, n, k) == [role |-> r, text |-> t, idx |-> n, tok |-> k]
Ev(e, n, a, v) == [ev |-> e, idx |-> n, arg |-> a, val |-> v]

RECURSIVE SumTok(_)
SumTok(s) == IF s = <<>> THEN 0 ELSE Head(s).tok + SumTok(Tail(s))

\* LLM::get_messages: prefix + history + suffix
get_messages(llm) == llm.prompt \o llm.message_history \o llm.end_prompt

\* LLM::get_tokens_remaining
get_tokens_remaining(msgs) ==
    IF SumTok(msgs) >= TokenLimit THEN 0 ELSE TokenLimit - SumTok(msgs)

\* LLM::crop_to_tokens_remaining: drop oldest history entries until it fits
RECURSIVE crop_to_tokens_remaining(_, _)
crop_to_tokens_remaining(llm, keep) ==
    IF get_tokens_remaining(get_messages(llm)) >= keep \/ llm.message_history = <<>>
    THEN llm
    ELSE crop_to_tokens_remaining(
            [llm EXCEPT !.message_history = Tail(llm.message_history)], keep)

\* LLM::clear_history
clear_history(llm) == [llm EXCEPT !.message_history = <<>>]

EmptyLLM == [prompt |-> <<>>, end_prompt |-> <<>>, message_history |-> <<>>]
Last(q) == q[Len(q)]
Push(llm, m) == [llm EXCEPT !.message_history = Append(@, m)]
\* mutation: the pop is forgotten
pop_none(llm) == llm
Pop(llm) == [llm EXCEPT !.message_history = SubSeq(@, 1, Len(@) - 1)]

SeqsUpTo(S, n) == UNION {[1..k -> S] : k \in 0..n}
\* the plans tried: resource and action steps in turn (what a step declares
\* decides nothing in the run, the executor picks the tool), any assets
StepAt(n) == CHOOSE v \in StepValues : v.kind = IF n % 2 = 1 THEN "resource" ELSE "action"
Plans == {[steps |-> [n \in 1..k |-> StepAt(n)], assets |-> a] :
             k \in 0..MaxSteps, a \in SeqsUpTo(AssetValues, MaxAssets)}
NoPlan == [steps |-> <<>>, assets |-> <<>>]

\* ------------------------------------------- Structured Response Channel
\* the retry count every caller passes (methodical.rs 91, 216, 260; employee.rs 106)
Retries == 2

\* which of the initial attempt and the retries return text that validates
Responses == [1..(Retries + 1) -> BOOLEAN]

\* try_parse_json: the first attempt that validates, 0 for ParseExhausted;
\* it reads the conversation and never writes it
try_parse_json(valid, retries) ==
    IF \E k \in 1..(retries + 1) : valid[k]
    THEN CHOOSE k \in 1..(retries + 1) : valid[k] /\ \A m \in 1..(k - 1) : ~valid[m]
    ELSE 0

\* mutation: the raw text is pushed before the result is looked at
push_unchecked(llm, a, m) == Push(llm, m)

\* `try_parse_json(..)?` followed by the push of `.raw` (216-217, 260-261)
push_parsed(llm, a, m) == IF a = 0 THEN llm ELSE Push(llm, m)

\* ------------------------------------------------------------ add_memories
AddMemOutcomes == {"ok", "parse_err", "sink_err", "store_err"}

\* add_memories, line 72: the summarization request is pushed first
add_memories_llm(llm) == Push(llm, Msg("User", "memories_prompt", 0, Tok.memories_prompt))

\* add_memories, lines 91-96: the calls it makes, up to the first `?` that fails
add_memories_trace(oc, n) ==
    <<Ev("add_memories", n, oc, "")>>
    \o (IF oc = "parse_err" THEN <<>> ELSE <<Ev("update", n, "SavedMemories", "")>>)
    \o (IF oc \in {"ok", "store_err"} THEN <<Ev("store_memory", n, "", "")>> ELSE <<>>)

add_memories_error(oc) ==
    CASE oc = "parse_err" -> "err_summarize_parse"
      [] oc = "store_err" -> "err_summarize_store"
      [] oc = "sink_err"  -> "err_sink"
      [] OTHER            -> "none"

\* ------------------------------------------------------- run_method_agent
\* mutation: the loop bound is off by one and the last step is never run
StepPcSkipLast(p, k) == IF k < Len(p.steps) THEN "select"
                        ELSE IF Len(p.assets) >= 1 THEN "asset" ELSE "finish"
StepPc(p, k) == IF k <= Len(p.steps) THEN "select"
                ELSE IF Len(p.assets) >= 1 THEN "asset" ELSE "finish"
\* mutation: the asset loop stops before the last declared asset
AssetPcSkipLast(p, k) == IF k < Len(p.assets) THEN "asset" ELSE "finish"
AssetPc(p, k) == IF k <= Len(p.assets) THEN "asset" ELSE "finish"

Fail(err) == /\ pc' = "done"
             /\ result' = err

\* lines 112-214
Begin ==
    /\ UNCHANGED <<evars, resp>>
    /\ pc = "start"
    /\ cloned_assets' = assets
    /\ agent' = clear_history(agent)
    /\ \E memok \in BOOLEAN :
         LET p1 == [clear_history(planner) EXCEPT !.prompt =
                        Append(@, Msg("System", "personality", 0, Tok.personality))]
         IN IF memok
            THEN /\ planner' = [p1 EXCEPT !.prompt =
                        Append(@, Msg("User", "planner_prompt", 0, Tok.planner_prompt))]
                 /\ pc' = "plan"
                 /\ UNCHANGED result
            ELSE /\ planner' = p1
                 /\ Fail("err_memory")
    /\ UNCHANGED <<plan, i, j, thoughts, allowed, assets, changed_assets, trace, sinkErr>>

\* mutation: only the prompt is handed over, the history is left behind
HandoffPromptOnly(pl, ag) == [ag EXCEPT !.prompt = pl.prompt]

\* lines 221-228: the planner's prompt and history are copied to the executor
Handoff(pl, ag) == [ag EXCEPT !.prompt = pl.prompt,
                              !.message_history = pl.message_history]

\* lines 216-228
Plan ==
    /\ UNCHANGED <<evars, resp>>
    /\ pc = "plan"
    /\ \E valid \in Responses :
         LET a == try_parse_json(valid, Retries)
             p1 == push_parsed(planner, a, Msg("Assistant", "plan_raw", 0, Tok.plan_raw))
         IN /\ planner' = p1
            /\ IF a = 0
               THEN /\ Fail("err_parse")
                    /\ UNCHANGED <<agent, plan, i, trace, sinkErr>>
               ELSE \E p \in Plans, sinkok \in BOOLEAN :
                      /\ trace' = Append(trace, Ev("update", 0, "Plan", ""))
                      /\ IF sinkok
                         THEN /\ agent' = Handoff(p1, agent)
                              /\ plan' = p
                              /\ i' = 1
                              /\ pc' = StepPc(p, 1)
                              /\ UNCHANGED <<result, sinkErr>>
                         ELSE /\ sinkErr' = TRUE
                              /\ Fail("err_sink")
                              /\ UNCHANGED <<agent, plan, i>>
    /\ UNCHANGED <<j, thoughts, allowed, assets, cloned_assets, changed_assets>>

\* mutation: the step prompt is pushed without announcing the step
SelectStepSilent ==
    /\ UNCHANGED <<evars, resp>>
    /\ pc = "select"
    /\ agent' = Push(agent, Msg("User", "step_prompt", i, Tok.step_prompt))
    /\ pc' = "decide"
    /\ UNCHANGED <<result, sinkErr, trace>>
    /\ UNCHANGED <<planner, plan, i, j, thoughts, allowed, assets, cloned_assets,
                   changed_assets>>

\* lines 231-258
SelectStep ==
    /\ UNCHANGED <<evars, resp>>
    /\ pc = "select"
    /\ trace' = Append(trace, Ev("update", i, "SelectedStep", plan.steps[i].name))
    /\ \E sinkok \in BOOLEAN :
         IF sinkok
         THEN /\ agent' = Push(agent, Msg("User", "step_prompt", i, Tok.step_prompt))
              /\ pc' = "decide"
              /\ UNCHANGED <<result, sinkErr>>
         ELSE /\ sinkErr' = TRUE
              /\ Fail("err_sink")
              /\ UNCHANGED agent
    /\ UNCHANGED <<planner, plan, i, j, thoughts, allowed, assets, cloned_assets,
                   changed_assets>>

\* lines 260-262
Decide ==
    /\ UNCHANGED <<evars, resp>>
    /\ pc = "decide"
    /\ \E valid \in Responses :
         LET a == try_parse_json(valid, Retries) IN
         /\ agent' = push_parsed(agent, a, Msg("Assistant", "thoughts_raw", i, Tok.thoughts_raw))
         /\ IF a = 0
            THEN /\ Fail("err_parse")
                 /\ UNCHANGED thoughts
            ELSE \E t \in Tools :
                   /\ thoughts' = t
                   /\ pc' = "gate"
                   /\ UNCHANGED result
    /\ UNCHANGED <<planner, plan, i, j, allowed, assets, cloned_assets,
                   changed_assets, trace, sinkErr>>

\* mutation: the verdict of the gate is ignored
allow_any(action) == TRUE

\* line 267: allow_action(&thoughts.action)
allow_action(action) == action \in allowed

\* lines 266-267
Gate ==
    /\ UNCHANGED <<evars, resp>>
    /\ pc = "gate"
    /\ \E sinkok \in BOOLEAN :
         LET t1 == Append(trace, Ev("update", i, "Thoughts", thoughts))
         IN IF ~sinkok
            THEN /\ trace' = t1
                 /\ sinkErr' = TRUE
                 /\ Fail("err_sink")
            ELSE /\ trace' = Append(t1, Ev("allow_action", i, thoughts, ""))
                 /\ UNCHANGED sinkErr
                 /\ IF allow_action(thoughts)
                    THEN pc' = "dispatch" /\ UNCHANGED result
                    ELSE Fail("err_gate")
    /\ UNCHANGED <<planner, agent, plan, i, j, thoughts, allowed, assets,
                   cloned_assets, changed_assets>>

\* lines 269-276 and 289-291
Dispatch ==
    /\ UNCHANGED <<evars, resp>>
    /\ pc = "dispatch"
    /\ LET t1 == Append(trace, Ev("use_tool", i, thoughts, "")) IN
       \/ /\ trace' = t1
          /\ Fail("err_tool")
          /\ UNCHANGED <<agent, sinkErr>>
       \/ \E out \in OutToks, sinkok \in BOOLEAN :
            /\ trace' = Append(t1, Ev("update", i, "ActionResults", ""))
            /\ IF sinkok
               THEN /\ agent' = Push(agent, Msg("User", "out", i, out))
                    /\ pc' = "budget"
                    /\ UNCHANGED <<result, sinkErr>>
               ELSE /\ sinkErr' = TRUE
                    /\ Fail("err_sink")
                    /\ UNCHANGED agent
    /\ UNCHANGED <<planner, plan, i, j, thoughts, allowed, assets, cloned_assets,
                   changed_assets>>

\* mutation: the truncation to the high-water mark only runs on failure
FlushCycleCropOnFailure(llm, oc) ==
    LET l1 == add_memories_llm(llm)
    IN IF oc = "ok" THEN l1
       ELSE crop_to_tokens_remaining(crop_to_tokens_remaining(l1, FallbackCrop), HighWater)

\* lines 280-286: one flush cycle
FlushCycle(llm, oc) ==
    LET l1 == add_memories_llm(llm)
        l2 == IF oc = "ok" THEN l1 ELSE crop_to_tokens_remaining(l1, FallbackCrop)
    IN crop_to_tokens_remaining(l2, HighWater)

FlushTrace(oc, n) ==
    add_memories_trace(oc, n)
    \o (IF oc = "ok" THEN <<>> ELSE <<Ev("crop", n, "1000", "")>>)
    \o <<Ev("crop", n, "2000", "")>>

\* line 279
NeedsFlush(llm) == get_tokens_remaining(get_messages(llm)) < LowWater

\* mutation: the flush is retried for as long as the estimate stays low, and
\* the truncation is left out
BudgetFlushWhileLow ==
    /\ UNCHANGED <<evars, resp>>
    /\ pc = "budget"
    /\ \/ /\ Fail("err_tokens")
          /\ UNCHANGED <<agent, trace, sinkErr, i>>
       \/ /\ ~NeedsFlush(agent)
          /\ i' = i + 1
          /\ pc' = StepPc(plan, i + 1)
          /\ UNCHANGED <<agent, trace, sinkErr, result>>
       \/ /\ NeedsFlush(agent)
          /\ \E oc \in AddMemOutcomes :
               /\ agent' = add_memories_llm(agent)
               /\ trace' = trace \o add_memories_trace(oc, i)
               /\ sinkErr' = (sinkErr \/ oc = "sink_err")
          /\ UNCHANGED <<i, pc, result>>
    /\ UNCHANGED <<planner, plan, j, thoughts, allowed, assets, cloned_assets,
                   changed_assets>>

\* lines 278-288, and the loop step of line 230
Budget ==
    /\ UNCHANGED <<evars, resp>>
    /\ pc = "budget"
    /\ \/ /\ Fail("err_tokens")
          /\ UNCHANGED <<agent, trace, sinkErr, i>>
       \/ /\ ~NeedsFlush(agent)
          /\ i' = i + 1
          /\ pc' = StepPc(plan, i + 1)
          /\ UNCHANGED <<agent, trace, sinkErr, result>>
       \/ /\ NeedsFlush(agent)
          /\ \E oc \in AddMemOutcomes :
               /\ agent' = FlushCycle(agent, oc)
               /\ trace' = trace \o FlushTrace(oc, i)
               /\ sinkErr' = (sinkErr \/ oc = "sink_err")
          /\ i' = i + 1
          /\ pc' = StepPc(plan, i + 1)
          /\ UNCHANGED result
       \* the token estimate inside a crop (lines 283, 286) fails
       \/ /\ NeedsFlush(agent)
          /\ \E oc \in AddMemOutcomes :
               /\ agent' = add_memories_llm(agent)
               /\ trace' = trace \o add_memories_trace(oc, i)
               /\ sinkErr' = (sinkErr \/ oc = "sink_err")
          /\ Fail("err_tokens")
          /\ UNCHANGED i
    /\ UNCHANGED <<planner, plan, j, thoughts, allowed, assets, cloned_assets,
                   changed_assets>>

\* lines 316-318: insert-or-overwrite
InsertAsset(map, name, content) == [map EXCEPT ![name] = content]

\* lines 297-323
WriteAsset ==
    /\ UNCHANGED <<evars, resp>>
    /\ pc = "asset"
    /\ LET a == plan.assets[j]
           l1 == Push(agent, Msg("User", "asset_prompt", j, Tok.asset_prompt))
       IN \/ /\ agent' = l1
             /\ Fail("err_model")
             /\ UNCHANGED <<assets, changed_assets, trace, sinkErr, j>>
          \/ \E c \in Contents, sinkok \in BOOLEAN :
               /\ agent' = Pop(l1)
               /\ assets' = InsertAsset(assets, a.name, c)
               /\ changed_assets' = Append(changed_assets, <<a.name, c>>)
               /\ trace' = trace \o <<Ev("write_asset", j, a.name, c),
                                      Ev("update", j, "AddedAsset", a.name)>>
               /\ IF sinkok
                  THEN /\ j' = j + 1
                       /\ pc' = AssetPc(plan, j + 1)
                       /\ UNCHANGED <<result, sinkErr>>
                  ELSE /\ sinkErr' = TRUE
                       /\ Fail("err_sink")
                       /\ UNCHANGED j
    /\ UNCHANGED <<planner, plan, i, thoughts, allowed, cloned_assets>>

\* line 332: format!("## Asset `{}`\n{}", el.0, el.1), as its lines
asset_entry(el) == <<"## Asset", el[1], el[2]>>

RECURSIVE join_entries(_)
join_entries(changed) ==
    IF changed = <<>> THEN <<>>
    ELSE asset_entry(Head(changed)) \o join_entries(Tail(changed))

\* mutation: the join starts one entry too late
asset_str_skip_first(changed) ==
    IF Len(changed) = 0 THEN <<"No assets changed.">>
    ELSE join_entries(Tail(changed))

\* lines 328-335
asset_str(changed) ==
    IF Len(changed) = 0 THEN <<"No assets changed.">>
    ELSE join_entries(changed)

\* line 337: format!("Assets:\n\n{}", asset_str), as its lines
format_resp(changed) == <<"Assets:", "">> \o asset_str(changed)

\* mutation: a run that changed no asset returns without the final flush
FinishFlushIfChanged ==
    /\ UNCHANGED evars
    /\ pc = "finish"
    /\ \E oc \in AddMemOutcomes :
         /\ agent' = IF changed_assets = <<>> THEN agent ELSE add_memories_llm(agent)
         /\ trace' = IF changed_assets = <<>> THEN trace
                     ELSE trace \o add_memories_trace(oc, 0)
         /\ sinkErr' = (sinkErr \/ (oc = "sink_err" /\ changed_assets # <<>>))
         /\ pc' = "done"
         /\ result' = IF oc = "ok" \/ changed_assets = <<>> THEN "ok"
                      ELSE add_memories_error(oc)
         /\ resp' = IF oc = "ok" \/ changed_assets = <<>>
                    THEN format_resp(changed_assets) ELSE resp
    /\ UNCHANGED <<planner, plan, i, j, thoughts, allowed, assets, cloned_assets,
                   changed_assets>>

\* lines 325-340
Finish ==
    /\ UNCHANGED evars
    /\ pc = "finish"
    /\ \E oc \in AddMemOutcomes :
         /\ agent' = add_memories_llm(agent)
         /\ trace' = trace \o add_memories_trace(oc, 0)
         /\ sinkErr' = (sinkErr \/ oc = "sink_err")
         /\ pc' = "done"
         /\ result' = IF oc = "ok" THEN "ok" ELSE add_memories_error(oc)
         /\ resp' = IF oc = "ok" THEN format_resp(changed_assets) ELSE resp
    /\ UNCHANGED <<planner, plan, i, j, thoughts, allowed, assets, cloned_assets,
                   changed_assets>>

Stale == Msg("User", "stale", 0, Tok.stale)

Procs == {1, 2}
Commands == {"lookup", "finish", "transmogrify"}
NoResult == [kind |-> "none", arg |-> ""]

\* the employee side before any run_employee call ("off": no caller at all)
EIdleAt(st) ==
    /\ lock = 0
    /\ epc = [p \in Procs |-> st]
    /\ employee = [EmptyLLM EXCEPT !.message_history = <<Stale>>]
    /\ plugins = {"lookup"}
    /\ disabled_commands = {}
    /\ cmds = [p \in Procs |-> {}]
    /\ decision = [p \in Procs |-> "none"]
    /\ eresult = [p \in Procs |-> NoResult]
    /\ run = [p \in Procs |-> 0]
    /\ runs = 0
    /\ etrace = <<>>

EIdle == EIdleAt("idle")

MInit ==
    /\ pc = "start"
    /\ result = "none"
    /\ planner = [EmptyLLM EXCEPT !.message_history = <<Stale>>]
    /\ agent = [EmptyLLM EXCEPT !.message_history = <<Stale>>]
    /\ plan = NoPlan
    /\ i = 0
    /\ j = 1
    /\ thoughts = "none"
    /\ allowed = {"search"}
    /\ assets \in {[n \in AssetNames |-> "none"],
                   [n \in AssetNames |-> IF n = "a" THEN "old" ELSE "none"]}
    /\ cloned_assets = [n \in AssetNames |-> "none"]
    /\ changed_assets = <<>>
    /\ trace = <<>>
    /\ sinkErr = FALSE
    /\ resp = <<>>

Init ==
    /\ MInit
    /\ EIdle

Next ==
    \/ Begin
    \/ Plan
    \/ SelectStep
    \/ Decide
    \/ Gate
    \/ Dispatch
    \/ Budget
    \/ WriteAsset
    \/ Finish

Spec == Init /\ [][Next]_vars

\* every model call, tool dispatch, memory-store call and sink call returns
SpecFair == Init /\ [][Next]_vars /\ WF_vars(Next)

\* ------------------------------------------------------------ run_employee
MaxRuns == 2
MaxDispatch == 2

NextCommand(r) == Msg("User", "next_command", r, 0)
Returned(k, a) == [kind |-> k, arg |-> a]

\* generate_commands(plugins, disabled_commands): the catalogue shown to the model
generate_commands(pl, dis) == pl \ dis

\* dispatches made so far by run r
Dispatched(r) == SelectSeq(etrace, LAMBDA e : e.ev = "run_command" /\ e.idx = r)

\* mutation: the context is used without waiting for the mutex
ELockNoWait(p) ==
    /\ epc[p] \in {"idle", "done"}
    /\ runs < MaxRuns
    /\ lock' = p
    /\ runs' = runs + 1
    /\ run' = [run EXCEPT ![p] = runs + 1]
    /\ epc' = [epc EXCEPT ![p] = "seed"]
    /\ eresult' = [eresult EXCEPT ![p] = NoResult]
    /\ UNCHANGED <<employee, plugins, disabled_commands, cmds, decision, etrace>>
    /\ UNCHANGED mvars

\* line 45: context.lock().unwrap()
ELock(p) ==
    /\ epc[p] \in {"idle", "done"}
    /\ lock = 0
    /\ runs < MaxRuns
    /\ lock' = p
    /\ runs' = runs + 1
    /\ run' = [run EXCEPT ![p] = runs + 1]
    /\ epc' = [epc EXCEPT ![p] = "seed"]
    /\ eresult' = [eresult EXCEPT ![p] = NoResult]
    /\ UNCHANGED <<employee, plugins, disabled_commands, cmds, decision, etrace>>
    /\ UNCHANGED mvars

\* lines 47-100
ESeed(p) ==
    /\ epc[p] = "seed"
    /\ lock = p
    /\ cmds' = [cmds EXCEPT ![p] = generate_commands(plugins, disabled_commands)]
    /\ employee' =
         [prompt |-> <<Msg("System", "personality", run[p], 0),
                       Msg("User", "task", run[p], 0),
                       Msg("User", "format", run[p], 0)>>,
          end_prompt |-> Append(employee.end_prompt, Msg("User", "commands", run[p], 0)),
          message_history |-> <<NextCommand(run[p])>>]
    /\ epc' = [epc EXCEPT ![p] = "ask"]
    /\ UNCHANGED <<lock, plugins, disabled_commands, decision, eresult, run, runs, etrace>>
    /\ UNCHANGED mvars

\* mutation: the sentinel is compared with the wrong spelling
is_finish_case(command_name) == command_name = "Finish"

\* line 117
is_finish(command_name) == command_name = "finish"

\* mutation: the lookup falls back to some command instead of failing
find_any(command_name) == TRUE

\* lines 123-126: plugins.iter().flat_map(commands).find(name == command_name)
find_command(command_name) == command_name \in plugins

\* lines 106-126: one decision, up to the registry lookup
EDecide(p) ==
    /\ epc[p] = "ask"
    /\ lock = p
    /\ \/ /\ \E valid \in Responses : try_parse_json(valid, Retries) = 0
          /\ epc' = [epc EXCEPT ![p] = "done"]
          /\ eresult' = [eresult EXCEPT ![p] = Returned("ParseExhausted", "")]
          /\ lock' = 0
          /\ etrace' = Append(etrace, Ev("return", run[p], "ParseExhausted", ""))
          /\ UNCHANGED decision
       \/ \E c \in Commands :
            /\ \E valid \in Responses : try_parse_json(valid, Retries) # 0
            /\ Len(Dispatched(run[p])) >= MaxDispatch => c # "lookup"
            /\ decision' = [decision EXCEPT ![p] = c]
            /\ LET t1 == Append(etrace, Ev("decision", run[p], c, "")) IN
               IF is_finish(c)
               THEN /\ epc' = [epc EXCEPT ![p] = "done"]
                    /\ eresult' = [eresult EXCEPT ![p] = Returned("Ok", "")]
                    /\ lock' = 0
                    /\ etrace' = Append(t1, Ev("return", run[p], "Ok", ""))
               ELSE IF find_command(c)
               THEN /\ epc' = [epc EXCEPT ![p] = "run"]
                    /\ etrace' = Append(t1, Ev("find", run[p], c, ""))
                    /\ UNCHANGED <<eresult, lock>>
               ELSE /\ epc' = [epc EXCEPT ![p] = "done"]
                    /\ eresult' = [eresult EXCEPT ![p] = Returned("CommandNotFound", c)]
                    /\ lock' = 0
                    /\ etrace' = t1 \o <<Ev("find", run[p], c, ""),
                                         Ev("return", run[p], "CommandNotFound", c)>>
    /\ UNCHANGED <<employee, plugins, disabled_commands, cmds, run, runs>>
    /\ UNCHANGED mvars

\* lines 128-144
ERun(p) ==
    /\ epc[p] = "run"
    /\ lock = p
    /\ LET t1 == Append(etrace, Ev("run_command", run[p], decision[p], "")) IN
       \/ /\ epc' = [epc EXCEPT ![p] = "done"]
          /\ eresult' = [eresult EXCEPT ![p] = Returned("CommandError", decision[p])]
          /\ lock' = 0
          /\ etrace' = Append(t1, Ev("return", run[p], "CommandError", decision[p]))
          /\ UNCHANGED employee
       \/ /\ employee' = [employee EXCEPT !.message_history = @ \o
                <<Msg("Assistant", decision[p], run[p], 0),
                  Msg("User", "out", run[p], 0),
                  NextCommand(run[p])>>]
          /\ epc' = [epc EXCEPT ![p] = "ask"]
          /\ etrace' = t1
          /\ UNCHANGED <<eresult, lock>>
    /\ UNCHANGED <<plugins, disabled_commands, cmds, decision, run, runs>>
    /\ UNCHANGED mvars

\* the methodical side while only run_employee runs ("off": it is never called)
MIdleAt(st) ==
    /\ pc = st
    /\ result = "none"
    /\ planner = EmptyLLM
    /\ agent = EmptyLLM
    /\ plan = NoPlan
    /\ i = 0
    /\ j = 1
    /\ thoughts = "none"
    /\ allowed = Tools
    /\ assets = [n \in AssetNames |-> "none"]
    /\ cloned_assets = [n \in AssetNames |-> "none"]
    /\ changed_assets = <<>>
    /\ trace = <<>>
    /\ sinkErr = FALSE
    /\ resp = <<>>

MIdle == MIdleAt("start")

EInit ==
    /\ lock = 0
    /\ epc = [p \in Procs |-> "idle"]
    /\ employee = [EmptyLLM EXCEPT !.message_history = <<Stale>>]
    /\ plugins \in {{"lookup"}, {"lookup", "finish"}}
    /\ disabled_commands \in {{}, {"lookup"}}
    /\ cmds = [p \in Procs |-> {}]
    /\ decision = [p \in Procs |-> "none"]
    /\ eresult = [p \in Procs |-> NoResult]
    /\ run = [p \in Procs |-> 0]
    /\ runs = 0
    /\ etrace = <<>>

InitE ==
    /\ MIdle
    /\ EInit

NextE ==
    \/ \E p \in Procs : ELock(p)
    \/ \E p \in Procs : ESeed(p)
    \/ \E p \in Procs : EDecide(p)
    \/ \E p \in Procs : ERun(p)

SpecE == InitE /\ [][NextE]_vars

\* either kind of run: a methodical run with no employee caller, or the
\* employee callers with no methodical run
InitRuns ==
    \/ /\ MInit
       /\ EIdleAt("off")
    \/ /\ MIdleAt("off")
       /\ EInit

SpecRuns == InitRuns /\ [][Next \/ NextE]_vars

\* ================================================================ claims
Updates(kind) == SelectSeq(trace, LAMBDA e : e.ev = "update" /\ e.arg = kind)
Calls(name) == SelectSeq(trace, LAMBDA e : e.ev = name)
IsStepEvent(e) ==
    \/ e.ev \in {"allow_action", "use_tool"}
    \/ e.ev = "update" /\ e.arg \in {"SelectedStep", "Thoughts", "ActionResults"}
    \/ e.ev \in {"add_memories", "store_memory", "crop"} /\ e.idx >= 1
    \/ e.ev = "update" /\ e.arg = "SavedMemories" /\ e.idx >= 1
IsError(r) == r \notin {"none", "ok"}

\* C1: a run over a plan of N steps that completes successfully has dispatched
\* use_tool exactly N times, the k-th dispatch during the k-th declared step
\* and before every event of step k+1, and the sink has received exactly N
\* SelectedStep and exactly N ActionResults updates.
C1_DispatchPerStep ==
    result = "ok" =>
        LET N == Len(plan.steps) IN
        /\ Len(Calls("use_tool")) = N
        /\ Len(Updates("SelectedStep")) = N
        /\ Len(Updates("ActionResults")) = N
        /\ \A k \in 1..N :
             /\ Calls("use_tool")[k].idx = k
             /\ Updates("SelectedStep")[k].idx = k
             /\ Updates("SelectedStep")[k].val = plan.steps[k].name
             /\ Updates("ActionResults")[k].idx = k
        /\ \A x \in 1..Len(trace) :
             trace[x].ev = "use_tool" =>
                \A y \in 1..x :
                   ~(IsStepEvent(trace[y]) /\ trace[y].idx = trace[x].idx + 1)

C1_Witness ==
    /\ result = "ok"
    /\ Len(plan.steps) = MaxSteps
    /\ Len(Calls("use_tool")) = MaxSteps

\* C2: when allow_action denies the action of step k the run returns the
\* denial at once: nothing is dispatched for step k or later, context.assets
\* is as at run start and no asset is written or announced; and every
\* dispatched action was passed to the gate, and allowed by it, beforehand.
C2_GateDenialHalts ==
    /\ result = "err_gate" =>
         /\ pc = "done"
         /\ \A x \in 1..Len(trace) : trace[x].ev = "use_tool" => trace[x].idx < i
         /\ assets = cloned_assets
         /\ changed_assets = <<>>
         /\ Calls("write_asset") = <<>>
         /\ Updates("AddedAsset") = <<>>
    /\ \A x \in 1..Len(trace) :
         trace[x].ev = "use_tool" =>
            /\ trace[x].arg \in allowed
            /\ \E y \in 1..(x - 1) :
                 /\ trace[y].ev = "allow_action"
                 /\ trace[y].idx = trace[x].idx
                 /\ trace[y].arg = trace[x].arg

C2_Witness ==
    /\ result = "err_gate"
    /\ i = 2
    /\ Len(Calls("use_tool")) = 1
    /\ Len(plan.assets) >= 1
    /\ plan.steps[2].kind = "action"

C4_NoDuplicateChangedAssets ==
    \A x, y \in 1..Len(changed_assets) :
        /\ changed_assets[x][2] = assets[changed_assets[x][1]]
        /\ (x # y => changed_assets[x][1] # changed_assets[y][1])

\* C7: once listen_to_update has returned an error the run has returned an
\* error (so nothing later is dispatched or written).
C7_SinkErrorAborts ==
    sinkErr => (pc = "done" /\ IsError(result))

\* C8: a run never returns an error caused by a failed add_memories
\* (parse exhaustion or memory store).
C8_SummarizeNeverSurfaced ==
    result \notin {"err_summarize_parse", "err_summarize_store"}

\* C9: asset writes come after every step event, the k-th write is of the
\* k-th declared asset, a successful run has written each declared asset
\* once, and a run in which a step failed has written none.
C9_AssetsAfterSteps ==
    LET W == Calls("write_asset") IN
    /\ \A x \in 1..Len(trace) :
         trace[x].ev = "write_asset" =>
            \A y \in x..Len(trace) : ~IsStepEvent(trace[y])
    /\ W # <<>> =>
         /\ i = Len(plan.steps) + 1
         /\ Len(Calls("use_tool")) = Len(plan.steps)
         /\ Len(Updates("ActionResults")) = Len(plan.steps)
    /\ Len(W) <= Len(plan.assets)
    /\ \A k \in 1..Len(W) : W[k].idx = k /\ W[k].arg = plan.assets[k].name
    /\ result = "ok" => Len(W) = Len(plan.assets)
    /\ (pc = "done" /\ IsError(result) /\ i <= Len(plan.steps)) => W = <<>>

C9_Witness ==
    /\ result = "ok"
    /\ Len(plan.steps) >= 1
    /\ Len(Calls("write_asset")) = MaxAssets

\* C10: once the plan is parsed and the Plan update accepted, and before
\* anything else happens, the executor's prompt and history equal the
\* planner's, the history ending with the Assistant message of the plan's raw
\* text; step prompts are only ever appended to that copy.
C10_Handoff ==
    LET accepted == /\ trace # <<>>
                    /\ trace[1] = Ev("update", 0, "Plan", "")
                    /\ ~(Len(trace) = 1 /\ sinkErr)
        ph == planner.message_history
        ah == agent.message_history
    IN /\ (accepted /\ Len(trace) = 1 /\ pc # "done") =>
            /\ agent.prompt = planner.prompt
            /\ Len(ah) = Len(ph)
            /\ \A k \in 1..Len(ph) : ah[k] = ph[k]
            /\ ph # <<>>
            /\ Last(ph) = Msg("Assistant", "plan_raw", 0, Tok.plan_raw)
       /\ (\E k \in 1..Len(ah) : ah[k].text = "step_prompt") =>
            /\ accepted
            /\ agent.prompt = planner.prompt
            /\ (Calls("crop") = <<>> =>
                  /\ Len(ah) > Len(ph)
                  /\ SubSeq(ah, 1, Len(ph)) = ph
                  /\ \A k \in 1..Len(ph) : ah[k].text # "step_prompt")

C10_Witness ==
    /\ pc = "select"
    /\ i = 1
    /\ Len(trace) = 1
    /\ agent.message_history = planner.message_history
    /\ Len(agent.prompt) = 2

\* ------------------------------------------------------ run_employee claims
RunEvents(r, name) == SelectSeq(etrace, LAMBDA e : e.ev = name /\ e.idx = r)
Args(q) == [k \in 1..Len(q) |-> q[k].arg]
\* the decision parsed by the step being taken, "none" if it parsed nothing
Parsed == IF Len(etrace') > Len(etrace) /\ etrace'[Len(etrace) + 1].ev = "decision"
          THEN etrace'[Len(etrace) + 1].arg ELSE "none"

C5_Dispatches ==
    \A r \in 1..runs :
        LET D == Args(RunEvents(r, "decision"))
            X == Args(RunEvents(r, "run_command"))
            F == Args(RunEvents(r, "find"))
        IN /\ Len(X) <= Len(D)
           /\ \A k \in 1..Len(X) : X[k] = D[k] /\ X[k] # "finish"
           /\ \A k \in 1..Len(F) : F[k] # "finish"
           /\ \A k \in 1..(Len(D) - 1) : D[k] # "finish"
           /\ RunEvents(r, "return") = <<Ev("return", r, "Ok", "")>> =>
                D = X \o <<"finish">>

C5_OnFinish ==
    \A p \in Procs :
        (epc[p] = "ask" /\ Parsed = "finish") =>
            /\ epc'[p] = "done"
            /\ eresult'[p] = Returned("Ok", "")
            /\ employee' = employee
            /\ lock' = 0
            /\ Len(etrace') = Len(etrace) + 2
            /\ etrace'[Len(etrace')] = Ev("return", run[p], "Ok", "")

\* C5: run_employee dispatches the decisions that precede the first `finish`
\* decision, once each and in order; on the first `finish` it returns success
\* with no registry lookup, no run_command and no change of the history, also
\* when the registry holds a command named `finish`.
C5_FinishSentinel == []C5_Dispatches /\ [][C5_OnFinish]_vars

C5_Witness ==
    \E p \in Procs :
        /\ eresult[p] = Returned("Ok", "")
        /\ "finish" \in plugins
        /\ Args(RunEvents(run[p], "run_command")) = <<"lookup">>
        /\ Args(RunEvents(run[p], "decision")) = <<"lookup", "finish">>

\* C6 as stated: at a failed lookup the run fails with CommandNotFound naming
\* the command, nothing is dispatched, and the history is the history of the
\* request plus the already appended decision.
C6_DecisionAlreadyAppended ==
    [][\A p \in Procs :
          (epc[p] = "ask" /\ Parsed \notin (plugins \cup {"finish", "none"})) =>
              /\ eresult'[p] = Returned("CommandNotFound", Parsed)
              /\ RunEvents(run[p], "run_command")' = RunEvents(run[p], "run_command")
              /\ employee'.message_history =
                    Append(employee.message_history,
                           Msg("Assistant", Parsed, run[p], 0))]_vars

\* C6 amended: at a failed lookup the run fails with CommandNotFound naming
\* the command, nothing is dispatched, and the role's prompt and history are
\* exactly those of the request: the decision has not been appended.
C6_NotFound ==
    [][\A p \in Procs :
          (epc[p] = "ask" /\ Parsed \notin (plugins \cup {"finish", "none"})) =>
              /\ epc'[p] = "done"
              /\ eresult'[p] = Returned("CommandNotFound", Parsed)
              /\ lock' = 0
              /\ RunEvents(run[p], "run_command")' = RunEvents(run[p], "run_command")
              /\ employee' = employee
              /\ \A k \in 1..Len(employee'.message_history) :
                    employee'.message_history[k].text # Parsed]_vars

C6_Witness ==
    \E p \in Procs :
        /\ eresult[p] = Returned("CommandNotFound", "transmogrify")
        /\ lock = 0
        /\ Args(RunEvents(run[p], "run_command")) = <<"lookup">>
        /\ Len(employee.message_history) = 4
        /\ Last(employee.message_history) = NextCommand(run[p])

\* ---------------------------------------------------- claims C11 to C20
Writes == Calls("write_asset")

\* C11: the value a successful run returns is the heading `Assets:` followed
\* by one `## Asset` entry, name and content, for each asset write of this
\* run in write order and nothing else: an asset that was in context.assets
\* before the run and was not written does not appear; a run that wrote
\* nothing returns the `No assets changed.` marker.
C11_Digest ==
    /\ result # "ok" => resp = <<>>
    /\ result = "ok" =>
         /\ Len(resp) >= 3
         /\ resp[1] = "Assets:"
         /\ resp[2] = ""
         /\ IF Writes = <<>>
            THEN resp = <<"Assets:", "", "No assets changed.">>
            ELSE /\ Len(resp) = 2 + 3 * Len(Writes)
                 /\ \A k \in 1..Len(Writes) :
                      /\ resp[3 * k] = "## Asset"
                      /\ resp[3 * k + 1] = Writes[k].arg
                      /\ resp[3 * k + 2] = Writes[k].val
         /\ \A n \in AssetNames :
              (\A k \in 1..Len(Writes) : Writes[k].arg # n) =>
                 \A x \in 1..Len(resp) : resp[x] # n /\ resp[x] # cloned_assets[n]

C11_Witness ==
    /\ result = "ok"
    /\ cloned_assets["a"] = "old"
    /\ assets["a"] = "old"
    /\ Len(Writes) = 2
    /\ resp = <<"Assets:", "", "## Asset", "b", "c1", "## Asset", "b", "c2">>

Assistants(h) == SelectSeq(h, LAMBDA m : m.role = "Assistant")

\* what one step does at a request of the structured response channel
C12_OnRequest ==
    /\ (pc = "plan" /\ result' = "err_parse") =>
          /\ planner' = planner
          /\ agent' = agent
          /\ trace' = trace
    /\ (pc = "plan" /\ result' # "err_parse") =>
          planner'.message_history =
             Append(planner.message_history, Msg("Assistant", "plan_raw", 0, Tok.plan_raw))
    /\ (pc = "decide" /\ result' = "err_parse") =>
          /\ pc' = "done"
          /\ agent' = agent
          /\ trace' = trace
    /\ (pc = "decide" /\ result' # "err_parse") =>
          agent'.message_history =
             Append(agent.message_history, Msg("Assistant", "thoughts_raw", i, Tok.thoughts_raw))
    /\ \A p \in Procs :
          (epc[p] = "ask" /\ eresult'[p].kind = "ParseExhausted") =>
             /\ epc'[p] = "done"
             /\ employee' = employee
             /\ etrace' = Append(etrace, Ev("return", run[p], "ParseExhausted", ""))

\* the raw texts in the histories
C12_RawOnce ==
    /\ Len(Assistants(planner.message_history)) <= 1
    /\ \A m \in {"plan_raw"} :
         Len(SelectSeq(agent.message_history, LAMBDA x : x.text = m)) <= 1
    /\ \A k \in 1..MaxSteps :
         Len(SelectSeq(agent.message_history,
                       LAMBDA x : x.text = "thoughts_raw" /\ x.idx = k)) <= 1
    /\ result = "err_parse" => Len(Calls("use_tool")) = Len(Updates("ActionResults"))
    /\ \A r \in 1..runs :
         LET raws == SelectSeq(employee.message_history,
                               LAMBDA x : x.role = "Assistant" /\ x.idx = r)
         IN /\ Len(raws) <= Len(RunEvents(r, "run_command"))
            /\ \A k \in 1..Len(raws) : raws[k].text = RunEvents(r, "decision")[k].arg

\* C12: at the plan request, the step decision and the employee decision a
\* parse exhaustion leaves the role's history as it was and aborts the run
\* with nothing dispatched for that request; the raw text enters the history
\* at most once per request and only when the parse succeeded.
C12_ParseNoSideEffect == []C12_RawOnce /\ [][C12_OnRequest]_vars

C12_Witness ==
    /\ result = "err_parse"
    /\ i = 2
    /\ Len(Assistants(agent.message_history)) = 2
    /\ Last(agent.message_history) = Msg("User", "step_prompt", 2, Tok.step_prompt)

HasAssetPrompt(h) == \E k \in 1..Len(h) : h[k].text = "asset_prompt"

\* one iteration of the asset loop in which the model answered
C13_OnWrite ==
    (pc = "asset" /\ result' # "err_model") =>
        /\ Len(changed_assets') = Len(changed_assets) + 1
        /\ agent' = agent

\* C13: an iteration of the asset loop that writes its asset leaves the
\* executor history exactly as it found it, so after each written asset and
\* after the whole asset phase the history is the one the phase started with:
\* it holds neither an asset prompt nor an asset's content.
C13_AssetPromptPopped ==
    /\ [](result # "err_model" =>
            /\ ~HasAssetPrompt(agent.message_history)
            /\ \A k \in 1..Len(agent.message_history) :
                  agent.message_history[k].text \notin Contents)
    /\ [][C13_OnWrite]_vars

C13_Witness ==
    /\ pc = "finish"
    /\ Len(Writes) = MaxAssets
    /\ Len(plan.steps) >= 1
    /\ Last(agent.message_history).text = "out"

\* C14: a run that returns successfully has made exactly one final
\* add_memories call, which succeeded and came after every step event, every
\* asset write and every AddedAsset update; this holds for every plan, the
\* empty one included, and whether or not a step ran a flush of its own.
C14_FinalFlush ==
    result = "ok" =>
        LET F == {x \in 1..Len(trace) : trace[x].ev = "add_memories" /\ trace[x].idx = 0}
        IN /\ Cardinality(F) = 1
           /\ \A x \in F :
                /\ trace[x].arg = "ok"
                /\ \A y \in 1..Len(trace) :
                     (\/ IsStepEvent(trace[y])
                      \/ trace[y].ev = "write_asset"
                      \/ trace[y].ev = "update" /\ trace[y].arg \in {"Plan", "AddedAsset"})
                     => y < x
           /\ Last(agent.message_history).text = "memories_prompt"

C14_Witness ==
    /\ result = "ok"
    /\ \E x \in 1..Len(trace) : trace[x].ev = "add_memories" /\ trace[x].idx >= 1
    /\ Len(Writes) >= 1
    /\ trace[Len(trace)].ev = "store_memory"

InRun(st) == st \in {"seed", "ask", "run"}

\* the caller that is inside a run holds the lock, and the events of the
\* runs follow each other run by run, never interleaved
C15_Exclusive ==
    /\ \A p \in Procs : InRun(epc[p]) <=> lock = p
    /\ \A p, q \in Procs : (InRun(epc[p]) /\ InRun(epc[q])) => p = q
    /\ \A y \in 2..Len(etrace) : etrace[y - 1].idx <= etrace[y].idx

\* every access to the context is by the holder, who keeps the lock until it
\* returns
C15_HeldToReturn ==
    /\ (employee' # employee \/ etrace' # etrace) =>
          \E p \in Procs :
              /\ lock = p
              /\ InRun(epc[p])
              /\ \A q \in Procs \ {p} : epc'[q] = epc[q] /\ ~InRun(epc[q])
              /\ \A k \in (Len(etrace) + 1)..Len(etrace') : etrace'[k].idx = run[p]
    /\ \A p \in Procs :
          /\ (InRun(epc[p]) /\ InRun(epc'[p])) => lock' = p
          /\ (InRun(epc[p]) /\ ~InRun(epc'[p])) =>
                /\ epc'[p] = "done"
                /\ lock' = 0
                /\ eresult'[p].kind # "none"
                /\ etrace'[Len(etrace')].ev = "return"
          /\ (~InRun(epc[p]) /\ InRun(epc'[p])) =>
                /\ lock = 0
                /\ lock' = p
                /\ employee' = employee

\* C15: two callers of run_employee on one context serialize completely: the
\* lock is taken before the role state is touched and kept until the run
\* returns, with success or with an error, so no history mutation and no
\* dispatch of one run falls between two accesses of the other.
C15_RunsSerialize == []C15_Exclusive /\ [][C15_HeldToReturn]_vars

C15_Witness ==
    /\ lock = 1
    /\ epc[1] = "run"
    /\ epc[2] = "done"
    /\ run[2] = 1
    /\ run[1] = 2
    /\ Len(RunEvents(1, "run_command")) >= 1
    /\ eresult[2].kind = "CommandError"

\* C16: whenever the sink has just been given ActionResults for a step, that
\* step's tool result is already in the executor history (the result is
\* appended first, the update emitted second, the budget check run third).
C16_ResultBeforeUpdate ==
    (/\ trace # <<>>
     /\ Last(trace).ev = "update"
     /\ Last(trace).arg = "ActionResults") =>
        \E k \in 1..Len(agent.message_history) :
            /\ agent.message_history[k].text = "out"
            /\ agent.message_history[k].idx = Last(trace).idx

LastUpdate == LET U == SelectSeq(trace, LAMBDA e : e.ev = "update") IN U[Len(U)]
HasUpdate == \E x \in 1..Len(trace) : trace[x].ev = "update"

\* the updates of a step come before what they announce
C17_StepUpdatesFirst ==
    /\ pc = "decide" => Last(trace) = Ev("update", i, "SelectedStep", plan.steps[i].name)
    /\ \A x \in 1..Len(trace) :
         trace[x].ev \in {"allow_action", "use_tool"} =>
            \E y \in 1..(x - 1) :
               trace[y] = Ev("update", trace[x].idx, "Thoughts", trace[x].arg)
    /\ (result = "err_parse" /\ i >= 1) =>
          (LastUpdate.arg = "SelectedStep" /\ LastUpdate.idx = i)
    /\ result \in {"err_gate", "err_tool"} =>
          (LastUpdate.arg = "Thoughts" /\ LastUpdate.idx = i)

\* C17 as stated: SelectedStep precedes the decision request, Thoughts the
\* gate and the dispatch, and AddedAsset the write of the asset into
\* context.assets, so that a run that aborts while an asset is attempted ends
\* its update stream with that asset's AddedAsset.
C17_UpdatesBeforeActions ==
    /\ C17_StepUpdatesFirst
    /\ \A x \in 1..Len(trace) :
         trace[x].ev = "write_asset" =>
            \E y \in 1..(x - 1) :
               trace[y] = Ev("update", trace[x].idx, "AddedAsset", trace[x].arg)
    /\ result = "err_model" => (LastUpdate.arg = "AddedAsset" /\ LastUpdate.idx = j)

\* C17 amended: SelectedStep precedes the decision request and Thoughts the
\* gate and the dispatch, so a run that aborts at a step's decision, gate or
\* dispatch ends its update stream with that step's SelectedStep or Thoughts;
\* AddedAsset is emitted after the asset is in context.assets and in the
\* changed-asset list, so a run that aborts while an asset is generated has
\* emitted nothing for that asset.
C17_UpdatesAroundActions ==
    /\ C17_StepUpdatesFirst
    /\ \A y \in 1..Len(trace) :
         (trace[y].ev = "update" /\ trace[y].arg = "AddedAsset") =>
            /\ y > 1
            /\ trace[y - 1].ev = "write_asset"
            /\ trace[y - 1].idx = trace[y].idx
            /\ trace[y - 1].arg = trace[y].val
            /\ Len(changed_assets) >= trace[y].idx
            /\ changed_assets[trace[y].idx][1] = trace[y].val
            /\ assets[trace[y].val] # "none"
    /\ result = "err_model" =>
          /\ HasUpdate
          /\ ~(LastUpdate.arg = "AddedAsset" /\ LastUpdate.idx = j)
          /\ Len(Writes) = j - 1

C17_Witness ==
    /\ result = "err_model"
    /\ j = 2
    /\ Len(plan.steps) >= 1
    /\ trace[Len(trace)] = Ev("update", 1, "AddedAsset", plan.assets[1].name)

CountEv(name, k) == Len(SelectSeq(trace, LAMBDA e : e.ev = name /\ e.idx = k))

\* the work of a run is bounded: per step one update of each kind, one gate
\* call, one dispatch, at most one summarization and at most two truncations
C18_BoundedWork ==
    /\ \A k \in 1..MaxSteps :
         /\ CountEv("add_memories", k) <= 1
         /\ CountEv("crop", k) <= 2
         /\ CountEv("use_tool", k) <= 1
         /\ CountEv("allow_action", k) <= 1
    /\ CountEv("add_memories", 0) <= 1
    /\ Len(Writes) <= Len(plan.assets)
    /\ pc = "done" =>
         /\ result # "none"
         /\ (result = "ok" => resp # <<>>)

\* C18: when every call returns, a run over a finite plan terminates, with
\* the digest or with an error, and a low token estimate costs its step at
\* most one summarization attempt and at most two truncations.
C18_Terminates == <>(pc = "done") /\ []C18_BoundedWork

C18_Witness ==
    /\ pc = "done"
    /\ result = "ok"
    /\ Len(plan.steps) = MaxSteps
    /\ CountEv("add_memories", 1) = 1
    /\ CountEv("crop", 1) = 2

\* C19: every command run_employee dispatches is outside disabled_commands
\* and inside the catalogue generated from plugins and disabled_commands.
C19_DisabledNeverDispatched ==
    \A x \in 1..Len(etrace) :
        etrace[x].ev = "run_command" =>
            /\ etrace[x].arg \notin disabled_commands
            /\ \A p \in Procs : run[p] = etrace[x].idx => etrace[x].arg \in cmds[p]

\* C20: when a run makes its first model request the prompt holds this run's
\* three seed messages, the history one user message and the end prompt one
\* command-catalogue message, however many runs came before.
C20_FreshConversation ==
    \A p \in Procs :
        (epc[p] = "ask" /\ RunEvents(run[p], "decision") = <<>>) =>
            /\ employee.prompt = <<Msg("System", "personality", run[p], 0),
                                   Msg("User", "task", run[p], 0),
                                   Msg("User", "format", run[p], 0)>>
            /\ employee.message_history = <<NextCommand(run[p])>>
            /\ employee.end_prompt = <<Msg("User", "commands", run[p], 0)>>

====
